---- MODULE Spec2Model ----
(***************************************************************************)
(* Model of song_ranking.py: the ranked-song list kept in the Streamlit    *)
(* session (st.session_state.ranked_songs), its JSON file rankings.json,   *)
(* the suggestion list built from the Spotify top tracks and recent plays, *)
(* and the handlers of main() that add, re-rank and remove songs.          *)
(*                                                                         *)
(* A song is a Python dict; it is modelled as a function from key strings  *)
(* to values, so that "key in dict", dict equality and "dict in list" are  *)
(* the structural tests Python performs.  Python lists hold references:    *)
(* a suggestion that is added to ranked_songs is the same dict object in   *)
(* both lists, which the field ref of a list entry records.                *)
(***************************************************************************)
EXTENDS Integers, Sequences, FiniteSets, TLC

VARIABLES
    pc,              \* "start": no script run yet; "noauth": initialize_spotify failed; "ready"
    file,            \* rankings.json: [exists |-> BOOLEAN, data |-> list of dicts]
    ranked_songs,    \* st.session_state.ranked_songs: list of [ref, song]
    suggestions,     \* st.session_state.suggestions: list of dicts
    search_query,    \* content of the "Search for songs" text input
    next_rank,       \* rank allocator: the value get_next_available_rank returned, 0 before the call
    crashed,         \* the last script run ended with an uncaught exception
    saved_by,        \* the handler that called save_rankings in the last user action, "" if none
    rejected,        \* the last user action was an Add that found the song in the ranked list
    top_tracks,      \* aggregator inputs: items of current_user_top_tracks
    recent_tracks,   \*   items of current_user_recently_played
    now,             \*   time.time() in ticks
    tz,              \*   UTC offset of the local time zone in ticks
    agg,             \* "input" | "ok" | "failed": outcome of get_spotify_suggestions
    loaded_file      \* round trip: the content of rankings.json that load_rankings read

vars == <<pc, file, ranked_songs, suggestions, search_query, crashed, saved_by,
          rejected, next_rank, top_tracks, recent_tracks, now, tz, agg, loaded_file>>

otherVars == <<next_rank, top_tracks, recent_tracks, now, tz, agg>>

(***************************************************************************)
(* Bounds                                                                  *)
(***************************************************************************)
\* the highest rank; stands for the 2000 of range(1, 2001) and max_value=2000
MaxRank == 3
\* longest ranked list explored
MaxSongs == 2
\* longest rankings.json the session starts from
MaxFile == 2
\* most top tracks / recent plays the provider returns to the aggregator
MaxTop == 3
MaxRecent == 3
\* ticks per hour; stands for the 60 * 60 * 1000 of line 32
TicksPerHour == 1

Ranks == 1..MaxRank
TrackIds == {"A", "B"}

(***************************************************************************)
(* Python dict and list helpers                                            *)
(***************************************************************************)
SetKey(d, k, v) == [x \in DOMAIN d \cup {k} |-> IF x = k THEN v ELSE d[x]]

\* dict.get(k, default)
Get(d, k, default) == IF k \in DOMAIN d THEN d[k] ELSE default

\* s[:4]
Slice4(s) == SubSeq(s, 1, IF Len(s) < 4 THEN Len(s) ELSE 4)

RemoveAt(s, j) == SubSeq(s, 1, j - 1) \o SubSeq(s, j + 1, Len(s))

NA == <<"N", "/", "A">>

(***************************************************************************)
(* The catalog provider's data                                             *)
(***************************************************************************)
ReleaseDate(id) ==
    IF id = "A" THEN <<"1", "9", "7", "5", "-", "1", "0", "-", "3", "1">>
                ELSE <<"1", "9", "9", "9">>

RawTrack(id) ==
    [id |-> id,
     name |-> id,
     artists |-> <<[name |-> "Q"]>>,
     album |-> [images |-> IF id = "A" THEN <<[url |-> "imgA"]>> ELSE <<>>,
                release_date |-> ReleaseDate(id)]]

(***************************************************************************)
(* search_spotify                                                          *)
(***************************************************************************)
SearchRecord(track) ==
    [id |-> track.id,
     name |-> track.name,
     artist |-> track.artists[1].name,
     full_name |-> track.name \o " - " \o track.artists[1].name,
     image_url |-> IF track.album.images # <<>> THEN track.album.images[1].url
                   ELSE "None",
     release_year |-> Slice4(track.album.release_date)]

search_spotify(query, items) ==
    IF query = "" THEN <<>>
    ELSE [i \in DOMAIN items |-> SearchRecord(items[i])]

(***************************************************************************)
(* get_spotify_suggestions                                                 *)
(***************************************************************************)
\* datetime.strptime(...) gives a naive datetime, and .timestamp() reads a
\* naive datetime as local time: the UTC instant shifts by the UTC offset
ParsePlayedAt(played_at, offset) == played_at - offset

YearAgo(t) == t - (365 * 24 * TicksPerHour)

RECURSIVE CountPlays(_, _, _, _)
CountPlays(recent, i, year_ago, offset) ==
    IF i = 0 THEN [x \in {} |-> 0]
    ELSE LET play_counts == CountPlays(recent, i - 1, year_ago, offset)
             track_id == recent[i].track.id
             played_at == ParsePlayedAt(recent[i].played_at, offset)
         IN IF played_at > year_ago
            THEN SetKey(play_counts, track_id, Get(play_counts, track_id, 0) + 1)
            ELSE play_counts

SuggestionRecord(track, play_counts) ==
    [id |-> track.id,
     name |-> track.name,
     artist |-> track.artists[1].name,
     full_name |-> track.name \o " - " \o track.artists[1].name,
     image_url |-> IF track.album.images # <<>> THEN track.album.images[1].url
                   ELSE "None",
     release_year |-> Slice4(track.album.release_date),
     play_count |-> Get(play_counts, track.id, 0)]

RECURSIVE Dedup(_, _, _)
Dedup(top, i, play_counts) ==
    IF i = 0 THEN <<>>
    ELSE LET done == Dedup(top, i - 1, play_counts)
             seen_ids == {done[k].id : k \in DOMAIN done}
         IN IF top[i].id \notin seen_ids
            THEN Append(done, SuggestionRecord(top[i], play_counts))
            ELSE done

\* get_spotify_suggestions without the seen_ids test of line 46
get_spotify_suggestions_all(ok, top, recent, t, offset) ==
    IF ~ok THEN <<>>
    ELSE LET play_counts == CountPlays(recent, Len(recent), YearAgo(t), offset)
         IN [i \in DOMAIN top |-> SuggestionRecord(top[i], play_counts)]

\* ok = FALSE: one of the calls inside the try block raised
get_spotify_suggestions(ok, top, recent, t, offset) ==
    IF ~ok THEN <<>>
    ELSE Dedup(top, Len(top), CountPlays(recent, Len(recent), YearAgo(t), offset))

(***************************************************************************)
(* get_next_available_rank, save_rankings, load_rankings                   *)
(***************************************************************************)
RECURSIVE ScanRanks(_, _)
ScanRanks(rank, current_ranks) ==
    IF rank > MaxRank THEN MaxRank
    ELSE IF rank \notin current_ranks THEN rank
    ELSE ScanRanks(rank + 1, current_ranks)

\* get_next_available_rank with the scan of line 117 starting at 2
get_next_available_rank_from2(songs) ==
    IF songs = <<>> THEN 1
    ELSE ScanRanks(2, {songs[i].rank : i \in DOMAIN songs})

get_next_available_rank(songs) ==
    IF songs = <<>> THEN 1
    ELSE ScanRanks(1, {songs[i].rank : i \in DOMAIN songs})

save_rankings(rankings) == [exists |-> TRUE, data |-> rankings]

\* load_rankings without the test of line 136: every entry is looked up
load_rankings_all(f, lookup) ==
    IF f.exists
    THEN [i \in DOMAIN f.data |->
            SetKey(f.data[i], "release_year",
                   IF lookup[f.data[i].id].ok
                   THEN Slice4(lookup[f.data[i].id].track.album.release_date)
                   ELSE NA)]
    ELSE <<>>

\* lookup[id] = [ok, track]: the outcome of st.session_state.spotify.track(id)
load_rankings(f, lookup) ==
    IF f.exists
    THEN [i \in DOMAIN f.data |->
            IF "release_year" \notin DOMAIN f.data[i]
            THEN SetKey(f.data[i], "release_year",
                        IF lookup[f.data[i].id].ok
                        THEN Slice4(lookup[f.data[i].id].track.album.release_date)
                        ELSE NA)
            ELSE f.data[i]]
    ELSE <<>>

(***************************************************************************)
(* The ranked list                                                         *)
(***************************************************************************)
Songs(list) == [i \in DOMAIN list |-> list[i].song]

\* "song in list": some element is the same object or an equal dict
Contains(list, song) == \E i \in DOMAIN list : list[i].song = song

\* a sort that puts the last element first whatever its rank
InsertByRankFront(s, e) == <<e>> \o s

\* one step of the stable sort: e goes after every element ranked <= e
InsertByRank(s, e) ==
    LET k == Cardinality({i \in DOMAIN s : s[i].song.rank <= e.song.rank})
    IN SubSeq(s, 1, k) \o <<e>> \o SubSeq(s, k + 1, Len(s))

\* sorted(list, key=lambda x: x['rank'])
RECURSIVE sorted(_)
sorted(list) ==
    IF list = <<>> THEN <<>>
    ELSE InsertByRank(sorted(SubSeq(list, 1, Len(list) - 1)), list[Len(list)])

\* list.remove(song): drops the first element equal to song
FirstEqual(list, song) ==
    CHOOSE j \in DOMAIN list :
        /\ list[j].song = song
        /\ \A k \in 1..(j - 1) : list[k].song # song

IsSorted(songs) ==
    \A i \in DOMAIN songs : \A j \in DOMAIN songs :
        i < j => songs[i].rank <= songs[j].rank

(***************************************************************************)
(* Inputs of the session                                                   *)
(***************************************************************************)
SeqsUpTo(S, n) == UNION {[1..k -> S] : k \in 0..n}

DistinctIds(s) == \A i \in DOMAIN s : \A j \in DOMAIN s : i # j => s[i].id # s[j].id

DropKey(d, k) == [x \in DOMAIN d \ {k} |-> d[x]]

Queries == {"abba"}

\* sp.search(...)['tracks']['items'] for the query: no match, or tracks A and B
SearchResponses == {<<>>, <<RawTrack("A"), RawTrack("B")>>}

\* entries of a rankings.json written by an earlier run: a search record with
\* its rank, and, from a version that did not store it, without release_year
FileEntries ==
    LET full == {SetKey(SearchRecord(RawTrack(id)), "rank", r) :
                     id \in TrackIds, r \in Ranks}
    IN full \cup {DropKey(e, "release_year") : e \in full}

InitFiles ==
    {[exists |-> FALSE, data |-> <<>>]} \cup
    {[exists |-> TRUE, data |-> d] :
        d \in {s \in SeqsUpTo(FileEntries, MaxFile) : DistinctIds(s) /\ IsSorted(s)}}

\* the files a session starts from: track A as this version writes it, track B
\* as the version without release_year wrote it
SessionFiles ==
    {f \in InitFiles :
        \A i \in DOMAIN f.data : ("release_year" \in DOMAIN f.data[i]) = (f.data[i].id = "A")}

\* st.session_state has no attribute spotify yet: every lookup raises
NoSpotify == [id \in TrackIds |-> [ok |-> FALSE, track |-> RawTrack(id)]]

Now0 == 10000 * TicksPerHour

\* what the provider returns in the session: top tracks A, A and one recent
\* play of A
SessTop == <<RawTrack("A"), RawTrack("A")>>

SessRecent == <<[track |-> RawTrack("A"), played_at |-> Now0]>>

(***************************************************************************)
(* One script run of main()                                                *)
(***************************************************************************)
\* lines 288-290 of the run that follows st.rerun(): the search is repeated
\* (ok = FALSE: sp.search raises, and nothing catches it)
Rerun(q) == \E ok \in BOOLEAN : crashed' = (q # "" /\ ~ok)

Fresh(songs) == [i \in DOMAIN songs |-> [ref |-> 0, song |-> songs[i]]]

\* lines 238-247 of the first run
Startup(auth_ok) ==
    /\ pc = "start"
    /\ ranked_songs' = Fresh(load_rankings(file, NoSpotify))
    /\ pc' = IF auth_ok THEN "ready" ELSE "noauth"
    /\ suggestions' = <<>>
    /\ saved_by' = ""
    /\ rejected' = FALSE
    /\ crashed' = FALSE
    /\ UNCHANGED <<file, search_query, loaded_file>>

\* lines 240-245 of a later run
RetryAuth(auth_ok) ==
    /\ pc = "noauth"
    /\ pc' = IF auth_ok THEN "ready" ELSE "noauth"
    /\ saved_by' = ""
    /\ rejected' = FALSE
    /\ UNCHANGED <<file, ranked_songs, suggestions, search_query, crashed, loaded_file>>

\* lines 288-290: the text input changes (or a rerun in which no button fires)
Search(q) ==
    /\ pc = "ready"
    /\ search_query' = q
    /\ saved_by' = ""
    /\ rejected' = FALSE
    /\ Rerun(q)
    /\ UNCHANGED <<pc, file, ranked_songs, suggestions, loaded_file>>

\* lines 322-328, in a run whose search did not raise
LoadSuggestions(ok) ==
    /\ pc = "ready"
    /\ LET found == get_spotify_suggestions(ok, SessTop, SessRecent, Now0, 0)
       IN /\ suggestions' = IF found # <<>> THEN found ELSE suggestions
          /\ ranked_songs' = IF found # <<>> THEN Fresh(Songs(ranked_songs))
                             ELSE ranked_songs
    /\ saved_by' = ""
    /\ rejected' = FALSE
    /\ crashed' = FALSE
    /\ UNCHANGED <<pc, file, search_query, loaded_file>>

\* lines 308-318: the Add button of row idx of the search results, in a run
\* whose search returned items
AddSearchItem(items, idx, rank) ==
    /\ pc = "ready"
    /\ search_query # ""
    /\ ~crashed
    /\ Len(ranked_songs) < MaxSongs
    /\ idx \in DOMAIN items
    /\ LET song == search_spotify(search_query, items)[idx]
       IN IF ~Contains(ranked_songs, song)
          THEN /\ saved_by' = "add_search"
               /\ ranked_songs' =
                    sorted(Append(ranked_songs,
                                  [ref |-> 0, song |-> SetKey(song, "rank", rank)]))
               /\ file' = save_rankings(Songs(ranked_songs'))
               /\ rejected' = FALSE
               /\ Rerun(search_query)
          ELSE /\ saved_by' = ""
               /\ rejected' = TRUE
               /\ crashed' = FALSE
               /\ UNCHANGED <<file, ranked_songs>>
    /\ UNCHANGED <<pc, suggestions, search_query, loaded_file>>

AddSearch(idx, rank) ==
    \E items \in SearchResponses : AddSearchItem(items, idx, rank)

\* AddSuggestion without the sorted(...) of lines 351-354
AddSuggestionUnsorted(idx, rank) ==
    /\ pc = "ready"
    /\ ~crashed
    /\ idx \in DOMAIN suggestions
    /\ Len(ranked_songs) < MaxSongs
    /\ LET song == suggestions[idx]
       IN IF ~Contains(ranked_songs, song)
          THEN /\ saved_by' = "add_suggestion"
               /\ suggestions' = [suggestions EXCEPT ![idx] = SetKey(song, "rank", rank)]
               /\ ranked_songs' =
                    Append(ranked_songs, [ref |-> idx, song |-> SetKey(song, "rank", rank)])
               /\ file' = save_rankings(Songs(ranked_songs'))
               /\ rejected' = FALSE
               /\ Rerun(search_query)
          ELSE /\ saved_by' = ""
               /\ rejected' = TRUE
               /\ crashed' = FALSE
               /\ UNCHANGED <<file, ranked_songs, suggestions>>
    /\ UNCHANGED <<pc, search_query, loaded_file>>

\* lines 347-357: the Add button of row idx of the suggestions
AddSuggestion(idx, rank) ==
    /\ pc = "ready"
    /\ ~crashed
    /\ idx \in DOMAIN suggestions
    /\ Len(ranked_songs) < MaxSongs
    /\ LET song == suggestions[idx]
       IN IF ~Contains(ranked_songs, song)
          THEN /\ saved_by' = "add_suggestion"
               /\ suggestions' = [suggestions EXCEPT ![idx] = SetKey(song, "rank", rank)]
               /\ ranked_songs' =
                    sorted(Append(ranked_songs,
                                  [ref |-> idx, song |-> SetKey(song, "rank", rank)]))
               /\ file' = save_rankings(Songs(ranked_songs'))
               /\ rejected' = FALSE
               /\ Rerun(search_query)
          ELSE /\ saved_by' = ""
               /\ rejected' = TRUE
               /\ crashed' = FALSE
               /\ UNCHANGED <<file, ranked_songs, suggestions>>
    /\ UNCHANGED <<pc, search_query, loaded_file>>

\* lines 262-277: the number input of row idx of the ranked list
UpdateRank(idx, new_rank) ==
    /\ pc = "ready"
    /\ idx \in DOMAIN ranked_songs
    /\ new_rank # ranked_songs[idx].song.rank
    /\ saved_by' = "update_rank"
    /\ LET e == ranked_songs[idx]
           song == SetKey(e.song, "rank", new_rank)
       IN /\ ranked_songs' = sorted([ranked_songs EXCEPT ![idx] = [ref |-> e.ref, song |-> song]])
          /\ suggestions' = IF e.ref > 0 THEN [suggestions EXCEPT ![e.ref] = song]
                            ELSE suggestions
    /\ file' = save_rankings(Songs(ranked_songs'))
    /\ rejected' = FALSE
    /\ Rerun(search_query)
    /\ UNCHANGED <<pc, search_query, loaded_file>>

\* Remove without the save_rankings call of line 281
RemoveNoSave(idx) ==
    /\ pc = "ready"
    /\ idx \in DOMAIN ranked_songs
    /\ ranked_songs' = RemoveAt(ranked_songs, FirstEqual(ranked_songs, ranked_songs[idx].song))
    /\ saved_by' = ""
    /\ rejected' = FALSE
    /\ Rerun(search_query)
    /\ UNCHANGED <<pc, file, suggestions, search_query, loaded_file>>

\* lines 279-282: the Remove button of row idx of the ranked list
Remove(idx) ==
    /\ pc = "ready"
    /\ idx \in DOMAIN ranked_songs
    /\ ranked_songs' = RemoveAt(ranked_songs, FirstEqual(ranked_songs, ranked_songs[idx].song))
    /\ file' = save_rankings(Songs(ranked_songs'))
    /\ saved_by' = "remove"
    /\ rejected' = FALSE
    /\ Rerun(search_query)
    /\ UNCHANGED <<pc, suggestions, search_query, loaded_file>>

NoInputs ==
    /\ next_rank = 0
    /\ top_tracks = <<>>
    /\ recent_tracks = <<>>
    /\ now = 0
    /\ tz = 0
    /\ agg = "input"

SessionInit ==
    /\ pc = "start"
    /\ ranked_songs = <<>>
    /\ suggestions = <<>>
    /\ search_query = ""
    /\ crashed = FALSE
    /\ saved_by = ""
    /\ rejected = FALSE
    /\ loaded_file = [exists |-> FALSE, data |-> <<>>]
    /\ NoInputs

\* the session starts without a rankings.json: the ranked list is empty
Init ==
    /\ file = [exists |-> FALSE, data |-> <<>>]
    /\ SessionInit

\* the session starts from a rankings.json an earlier session left
InitLoaded ==
    /\ file \in SessionFiles
    /\ SessionInit

Next ==
    \/ \E auth_ok \in BOOLEAN : Startup(auth_ok) /\ UNCHANGED otherVars
    \/ \E auth_ok \in BOOLEAN : RetryAuth(auth_ok) /\ UNCHANGED otherVars
    \/ \E q \in Queries \cup {""} : Search(q) /\ UNCHANGED otherVars
    \/ \E ok \in BOOLEAN : LoadSuggestions(ok) /\ UNCHANGED otherVars
    \/ \E idx \in 1..Cardinality(TrackIds) : \E rank \in Ranks :
         AddSearch(idx, rank) /\ UNCHANGED otherVars
    \/ \E idx \in 1..Len(SessTop) : \E rank \in Ranks :
         AddSuggestion(idx, rank) /\ UNCHANGED otherVars
    \/ \E idx \in 1..MaxSongs : \E new_rank \in Ranks :
         UpdateRank(idx, new_rank) /\ UNCHANGED otherVars
    \/ \E idx \in 1..MaxSongs : Remove(idx) /\ UNCHANGED otherVars

Spec == Init /\ [][Next]_vars

SpecLoaded == InitLoaded /\ [][Next]_vars

(***************************************************************************)
(* get_spotify_suggestions on its own: the provider's two answers, the     *)
(* clock and the time zone are the inputs                                  *)
(***************************************************************************)
Year == 365 * 24 * TicksPerHour

\* ages of the recent plays: just inside, on and just outside the year
PlayAges == {Year - TicksPerHour, Year, Year + TicksPerHour}

\* UTC offsets of the machine the script runs on
Offsets == {0 - TicksPerHour, 0, 2 * TicksPerHour}

TopInputs == SeqsUpTo({RawTrack(id) : id \in TrackIds}, MaxTop)

RecentInputs ==
    SeqsUpTo({[track |-> RawTrack(id), played_at |-> Now0 - age] :
                 id \in TrackIds, age \in PlayAges},
             MaxRecent)

SessionIdle ==
    /\ pc = "start"
    /\ file = [exists |-> FALSE, data |-> <<>>]
    /\ ranked_songs = <<>>
    /\ search_query = ""
    /\ crashed = FALSE
    /\ saved_by = ""
    /\ rejected = FALSE
    /\ loaded_file = [exists |-> FALSE, data |-> <<>>]

InitAgg ==
    /\ top_tracks \in TopInputs
    /\ recent_tracks \in RecentInputs
    /\ now = Now0
    /\ tz \in Offsets
    /\ agg = "input"
    /\ suggestions = <<>>
    /\ next_rank = 0
    /\ SessionIdle

\* lines 18-64; ok = FALSE: a provider call or a conversion inside the try raised
GetSuggestions(ok) ==
    /\ agg = "input"
    /\ suggestions' = get_spotify_suggestions(ok, top_tracks, recent_tracks, now, tz)
    /\ agg' = IF ok THEN "ok" ELSE "failed"
    /\ UNCHANGED <<pc, file, ranked_songs, search_query, crashed, saved_by,
                   rejected, next_rank, top_tracks, recent_tracks, now, tz, loaded_file>>

NextAgg ==
    \/ GetSuggestions(TRUE)
    \/ GetSuggestions(FALSE)

SpecAgg == InitAgg /\ [][NextAgg]_vars

(***************************************************************************)
(* load_rankings followed at once by save_rankings                         *)
(***************************************************************************)
Lookups == [TrackIds -> {[ok |-> b, track |-> RawTrack(id)] : b \in BOOLEAN, id \in TrackIds}]

\* st.session_state.spotify.track(id): raises, or returns the track of that id
TrackLookups == {l \in Lookups : \A id \in TrackIds : l[id].track.id = id}

InitRoundTrip ==
    /\ pc = "start"
    /\ file \in InitFiles
    /\ loaded_file = [exists |-> FALSE, data |-> <<>>]
    /\ ranked_songs = <<>>
    /\ suggestions = <<>>
    /\ search_query = ""
    /\ crashed = FALSE
    /\ saved_by = ""
    /\ rejected = FALSE
    /\ NoInputs

\* lines 128-144
LoadRankings(lookup) ==
    /\ pc = "start"
    /\ ranked_songs' = Fresh(load_rankings(file, lookup))
    /\ loaded_file' = file
    /\ pc' = "loaded"
    /\ UNCHANGED <<file, suggestions, search_query, crashed, saved_by, rejected,
                   otherVars>>

\* lines 123-126
SaveRankings ==
    /\ pc = "loaded"
    /\ file' = save_rankings(Songs(ranked_songs))
    /\ pc' = "saved"
    /\ UNCHANGED <<ranked_songs, loaded_file, suggestions, search_query, crashed,
                   saved_by, rejected, otherVars>>

NextRoundTrip ==
    \/ \E lookup \in TrackLookups : LoadRankings(lookup)
    \/ SaveRankings

SpecRoundTrip == InitRoundTrip /\ [][NextRoundTrip]_vars

(***************************************************************************)
(* get_next_available_rank on its own: the ranked list is the input        *)
(***************************************************************************)
RankedEntries ==
    {SetKey(SearchRecord(RawTrack(id)), "rank", r) : id \in TrackIds, r \in Ranks}

\* ranked lists as the session keeps them: sorted by rank
RankedInputs == {s \in SeqsUpTo(RankedEntries, MaxRank + 1) : IsSorted(s)}

InitRank ==
    /\ pc = "ready"
    /\ ranked_songs \in {Fresh(s) : s \in RankedInputs}
    /\ file = save_rankings(Songs(ranked_songs))
    /\ suggestions = <<>>
    /\ search_query = ""
    /\ crashed = FALSE
    /\ saved_by = ""
    /\ rejected = FALSE
    /\ loaded_file = [exists |-> FALSE, data |-> <<>>]
    /\ NoInputs

\* lines 298 and 337: the default rank of an add row
NextAvailableRank ==
    /\ pc = "ready"
    /\ next_rank = 0
    /\ next_rank' = get_next_available_rank(Songs(ranked_songs))
    /\ UNCHANGED <<pc, file, ranked_songs, suggestions, search_query, crashed,
                   saved_by, rejected, top_tracks, recent_tracks, now, tz, agg,
                   loaded_file>>

NextRank == NextAvailableRank

SpecRank == InitRank /\ [][NextRank]_vars

(***************************************************************************)
(* Properties                                                              *)
(***************************************************************************)
FileContent(f) == IF f.exists THEN f.data ELSE <<>>

\* the row's record together with the rank chosen for it
WithRank(song, rank) == SetKey(song, "rank", rank)

NoOp ==
    /\ ranked_songs' = ranked_songs
    /\ file' = file
    /\ saved_by' = ""

Grown ==
    /\ Len(ranked_songs') = Len(ranked_songs) + 1
    /\ IsSorted(Songs(ranked_songs'))

\* C1: in every state reached from an empty store, the ranked list holds at
\* most one entry per track id.
C1_OneEntryPerTrackId ==
    \A i \in DOMAIN ranked_songs : \A j \in DOMAIN ranked_songs :
        i # j => ranked_songs[i].song.id # ranked_songs[j].song.id

\* C2: an add, from a search row or from a suggestion row, changes neither the
\* ranked list nor the file and does not call save_rankings when the list
\* already holds an entry equal to the row's record with the chosen rank.
C2_AddExistingIsNoOp ==
    [][/\ \A items \in SearchResponses : \A idx \in DOMAIN items : \A rank \in Ranks :
            (/\ AddSearchItem(items, idx, rank)
             /\ Contains(ranked_songs,
                         WithRank(search_spotify(search_query, items)[idx], rank)))
            => NoOp
       /\ \A idx \in DOMAIN suggestions : \A rank \in Ranks :
            (/\ AddSuggestion(idx, rank)
             /\ Contains(ranked_songs, WithRank(suggestions[idx], rank)))
            => NoOp]_vars

C4_LowestFreeRank ==
    [][next_rank' # 0 =>
         LET free == Ranks \ {ranked_songs[i].song.rank : i \in DOMAIN ranked_songs}
         IN /\ IF free # {}
               THEN next_rank' \in free /\ \A r \in free : next_rank' <= r
               ELSE next_rank' = MaxRank
            /\ ranked_songs' = ranked_songs
            /\ file' = file]_vars

\* every rank is taken and the allocator fell back to MaxRank
C4_Witness ==
    /\ next_rank = MaxRank
    /\ {ranked_songs[i].song.rank : i \in DOMAIN ranked_songs} = Ranks

\* C5 as stated: at the end of every user action the file content equals the
\* ranked list.
C5_FileEqualsStore ==
    [][pc = "ready" => FileContent(file') = Songs(ranked_songs')]_vars

\* C5 as amended: every add that is not rejected, every update_rank and every
\* remove writes the whole ranked list, in its order, to the file; no other
\* user action changes the list; and the list differs from the file only by
\* the release_year values load_rankings filled in, which are not written
\* before the next add, update_rank or remove.
C5_SavedAfterMutation ==
    [][pc = "ready" =>
         /\ saved_by' # "" => file' = [exists |-> TRUE, data |-> Songs(ranked_songs')]
         /\ Songs(ranked_songs') # Songs(ranked_songs) => saved_by' # ""
         /\ saved_by' = "" => file' = file
         /\ Songs(ranked_songs') = load_rankings(file', NoSpotify)]_vars

\* a re-rank wrote a list that holds a filled-in release_year
C5_Witness ==
    /\ saved_by = "update_rank"
    /\ file.exists
    /\ file.data = Songs(ranked_songs)
    /\ \E i \in DOMAIN ranked_songs : ranked_songs[i].song.release_year = NA

\* C6: no error of a provider call leaves a user action as an uncaught
\* exception.
C6_NoCrash == ~crashed

\* C7: the play_count of every suggestion is the number of recent plays of its
\* track that are less than 365 days before the current time.
C7_PlayCountWithinYear ==
    agg = "ok" =>
        \A k \in DOMAIN suggestions :
            suggestions[k].play_count =
                Cardinality({i \in DOMAIN recent_tracks :
                                /\ recent_tracks[i].track.id = suggestions[k].id
                                /\ recent_tracks[i].played_at > now - Year})

\* C8: the suggestions have pairwise different ids, their ids are those of
\* top_tracks, and they come in the order of first occurrence in top_tracks.
C8_DedupFirstOccurrence ==
    agg = "ok" =>
        LET first == {i \in DOMAIN top_tracks :
                         \A j \in 1..(i - 1) : top_tracks[j].id # top_tracks[i].id}
            nth(k) == CHOOSE i \in first : Cardinality({j \in first : j < i}) = k - 1
        IN /\ Len(suggestions) = Cardinality(first)
           /\ \A k \in DOMAIN suggestions : suggestions[k].id = top_tracks[nth(k)].id
           /\ DistinctIds(suggestions)
           /\ {suggestions[k].id : k \in DOMAIN suggestions} =
                  {top_tracks[i].id : i \in DOMAIN top_tracks}

\* top_tracks repeats its first track after another one
C8_Witness ==
    /\ agg = "ok"
    /\ Len(top_tracks) = 3
    /\ top_tracks[1].id = top_tracks[3].id
    /\ Len(suggestions) = 2
    /\ suggestions[1].id # suggestions[2].id

\* C9 as stated: the file saved right after loading equals the file loaded.
C9_RoundTripSame ==
    (pc = "saved" /\ loaded_file.exists) => file = loaded_file

\* C9 as amended: the file saved right after loading has the same entries in
\* the same order; an entry that had a release_year key is written as it was,
\* an entry that lacked it is written with the key added (the first four
\* characters of the looked-up release date, or N/A) and its other fields as
\* they were.
C9_RoundTripBackfilled ==
    (pc = "saved" /\ loaded_file.exists) =>
        /\ file.exists
        /\ Len(file.data) = Len(loaded_file.data)
        /\ \A i \in DOMAIN loaded_file.data :
             IF "release_year" \in DOMAIN loaded_file.data[i]
             THEN file.data[i] = loaded_file.data[i]
             ELSE /\ DropKey(file.data[i], "release_year") = loaded_file.data[i]
                  /\ "release_year" \in DOMAIN file.data[i]
                  /\ file.data[i].release_year \in
                         {NA, Slice4(ReleaseDate(loaded_file.data[i].id))}

\* a file with one entry that has release_year and one that lacks it
C9_Witness ==
    /\ pc = "saved"
    /\ Len(loaded_file.data) = 2
    /\ \E i \in DOMAIN loaded_file.data : "release_year" \in DOMAIN loaded_file.data[i]
    /\ \E i \in DOMAIN loaded_file.data : "release_year" \notin DOMAIN loaded_file.data[i]
    /\ \E i \in DOMAIN file.data : file.data[i].release_year = <<"1", "9", "7", "5">>

====
